---- MODULE Spec2Model ----
(***************************************************************************)
(* rollup-plugin-oxc-resolve: the plugin factory oxcResolve, its           *)
(* buildStart hook, the resolveId handler and resolveLikeNode, as written  *)
(* in src/index.ts.                                                        *)
(*                                                                         *)
(* JavaScript strings are sequences of one-character strings, so that      *)
(* split, slice, startsWith and concatenation are computed character by    *)
(* character.  An optional value (undefined or a value) is a sequence of    *)
(* length 0 or 1.                                                          *)
(***************************************************************************)
EXTENDS Integers, Sequences, FiniteSets, TLC

\* ------------------------------------------------------------------------
\* Strings
\* ------------------------------------------------------------------------
None == <<>>
Some(x) == <<x>>

Range(s) == {s[i] : i \in 1..Len(s)}

Includes(arr, x) == \E i \in 1..Len(arr) : arr[i] = x

StartsWith(s, p) == Len(s) >= Len(p) /\ SubSeq(s, 1, Len(p)) = p

EndsWith(s, p) == Len(s) >= Len(p) /\ SubSeq(s, Len(s) - Len(p) + 1, Len(s)) = p

\* String.prototype.split with a set of one-character separators: always at
\* least one piece, empty pieces kept.
RECURSIVE SplitFrom(_, _, _, _)
SplitFrom(s, seps, i, cur) ==
    IF i > Len(s) THEN <<cur>>
    ELSE IF s[i] \in seps THEN <<cur>> \o SplitFrom(s, seps, i + 1, <<>>)
    ELSE SplitFrom(s, seps, i + 1, Append(cur, s[i]))

Split(s, seps) == SplitFrom(s, seps, 1, <<>>)

\* `${x}` / x + '' of a possibly undefined string
UNDEFINED_TEXT == <<"u", "n", "d", "e", "f", "i", "n", "e", "d">>
ToText(opt) == IF opt = None THEN UNDEFINED_TEXT ELSE opt[1]

\* ------------------------------------------------------------------------
\* Program constants
\* ------------------------------------------------------------------------
ES6_BROWSER_EMPTY ==
    <<"\\0", "n", "o", "d", "e", "-", "r", "e", "s", "o", "l", "v", "e", ":",
      "e", "m", "p", "t", "y", ".", "j", "s">>

NODE_PREFIX == <<"n", "o", "d", "e", ":">>

\* importee.replace(NODE_IMPORT_PREFIX, '') with NODE_IMPORT_PREFIX = /^node:/
StripNodePrefix(s) ==
    IF StartsWith(s, NODE_PREFIX) THEN SubSeq(s, Len(NODE_PREFIX) + 1, Len(s)) ELSE s

\* the part of require('module').builtinModules the requests below can name
nodeBuiltinModules == { <<"f", "s">>, <<"p", "a", "t", "h">> }

defaultOptions ==
    [ conditionNames |-> <<"default", "module", "import", "require">>,
      mainFields     |-> <<"browser", "module", "main">>,
      extensions     |-> << <<".", "m", "j", "s">>, <<".", "c", "j", "s">>, <<".", "j", "s">>,
                            <<".", "j", "s", "o", "n">>, <<".", "n", "o", "d", "e">> >> ]

\* ------------------------------------------------------------------------
\* Input domains
\* ------------------------------------------------------------------------
FOO      == <<"f", "o", "o">>
DOT_FOO  == <<".", "/", "f", "o", "o">>
FS       == <<"f", "s">>
NODE_FS  == <<"n", "o", "d", "e", ":", "f", "s">>
SCOPED   == <<"@", "s", "/", "p">>
FOO_Q    == <<"f", "o", "o", "?", "a">>
FOO_QQ   == <<"f", "o", "o", "?", "a", "?", "b">>
FS_Q     == <<"f", "s", "?", "a">>
ENTRY    == <<"m", ".", "j", "s">>
IMPORTER == <<"/", "w", "/", "a", ".", "j", "s">>
CWD      == <<"/", "w">>
P1       == <<"/", "w", "/", "x", ".", "j", "s">>
P2       == <<"/", "w", "/", "y", ".", "j", "s">>

\* a preferBuiltins value: a boolean, or a predicate (true exactly on ids)
BoolPolicy(b) == [fn |-> FALSE, b |-> b, ids |-> {}]
FnPolicy(ids) == [fn |-> TRUE, b |-> FALSE, ids |-> ids]

\* a resolveOnly value: a predicate, or an array of patterns; a pattern is a
\* literal string or a RegExp of the form /^src/
Literal(s) == [regex |-> FALSE, src |-> s]
RegExpPrefix(s) == [regex |-> TRUE, src |-> s]
OnlyFn(ids) == [fn |-> TRUE, ids |-> ids, patterns |-> <<>>]
OnlyPatterns(ps) == [fn |-> FALSE, ids |-> {}, patterns |-> ps]

MainFieldsChoices == {None, Some(<<"main">>), Some(<<"browser", "main">>)}
BrowserChoices == {None, Some(TRUE)}
ConditionNamesChoices ==
    {None, Some(<<"import">>), Some(<<"development", "import">>),
     Some(<<"development", "production">>)}
BuiltinModulesChoices == {None, Some(TRUE), Some(FALSE)}
PreferBuiltinsChoices ==
    {None, Some(BoolPolicy(TRUE)), Some(BoolPolicy(FALSE)), Some(FnPolicy({FS}))}
ResolveOnlyChoices ==
    {None, Some(OnlyPatterns(<<Literal(SCOPED), RegExpPrefix(<<"f", "s">>)>>)),
     Some(OnlyFn({FS}))}

\* the options objects a configuration file passes to oxcResolve
AllOptions ==
    [ mainFields     : MainFieldsChoices,
      browser        : BrowserChoices,
      conditionNames : ConditionNamesChoices,
      builtinModules : BuiltinModulesChoices,
      preferBuiltins : {None, Some(BoolPolicy(TRUE)), Some(BoolPolicy(FALSE))},
      resolveOnly    : {None, Some(OnlyFn({FS}))},
      extensions     : {None},
      extensionAlias : {None} ]

\* the options objects of the builds whose requests are explored
RequestOptions ==
    [ mainFields     : {None, Some(<<"main">>)},
      browser        : {None},
      conditionNames : {None},
      builtinModules : {None, Some(TRUE)},
      preferBuiltins : PreferBuiltinsChoices,
      resolveOnly    : ResolveOnlyChoices,
      extensions     : {None},
      extensionAlias : {None} ]

DOT_JS  == <<".", "j", "s">>
DOT_JSX == <<".", "j", "s", "x">>
DOT_MJS == <<".", "m", "j", "s">>
DOT_CJS == <<".", "c", "j", "s">>
DOT_TS  == <<".", "t", "s">>
DOT_TSX == <<".", "t", "s", "x">>
DOT_MTS == <<".", "m", "t", "s">>
DOT_CTS == <<".", "c", "t", "s">>
A_JS    == <<".", "/", "a">> \o DOT_JS
A_MJS   == <<".", "/", "a">> \o DOT_MJS
TS_IMPORTER == <<"/", "w", "/", "b">> \o DOT_TS

\* user lists of extensions, and user alias tables (an object: its entries
\* in declaration order)
ExtensionsChoices ==
    {None, Some(<<DOT_TS, DOT_JS>>), Some(<<DOT_TSX, DOT_MTS, DOT_TS, DOT_JS>>)}
ExtensionAliasChoices ==
    {None,
     Some(<< [from |-> DOT_JS,  to |-> <<DOT_TSX, DOT_TS, DOT_JS>>],
             [from |-> DOT_MJS, to |-> <<DOT_MTS, DOT_MJS>>] >>)}

\* the options objects of the builds with TypeScript sources
TsOptions ==
    [ mainFields     : {None},
      browser        : {None},
      conditionNames : {None},
      builtinModules : {None},
      preferBuiltins : {None},
      resolveOnly    : {None},
      extensions     : ExtensionsChoices,
      extensionAlias : ExtensionAliasChoices ]

NodeEnvChoices == {None, Some("production"), Some("development")}

ArrayInput(items) == [array |-> TRUE, entries |-> [i \in 1..Len(items) |-> <<"", items[i]>>]]
ObjectInput(entries) == [array |-> FALSE, entries |-> entries]

AllBuildOptions ==
    [ input : {ArrayInput(<<ENTRY>>), ObjectInput(<< <<"main", FOO>> >>)},
      preserveSymlinks : BOOLEAN ]

RequestBuildOptions ==
    [ input : {ObjectInput(<< <<"main", FOO>> >>)}, preserveSymlinks : {FALSE} ]

\* ------------------------------------------------------------------------
\* State
\* ------------------------------------------------------------------------
VARIABLES
    nodeEnv,                \* process.env.NODE_ENV
    defaultConditionNames,  \* the array defaultOptions.conditionNames
    instances,              \* number of oxcResolve() calls made so far
    plugin,                 \* the closure of the latest oxcResolve() call
    rollupOptions,          \* closure variable, set by buildStart
    resolverFactory,        \* closure variable, set by buildStart
    pc,                     \* where the request in flight is suspended
    req,                    \* the arguments of the request in flight
    fs,                     \* what the engine answers for each candidate
    frame,                  \* locals of resolveLikeNode across its awaits
    engineCalls,            \* the calls made to resolverFactory.async
    warnings,               \* the diagnostics passed to context.warn
    hostCalls,              \* the calls made to this.resolve
    local,                  \* what resolveLikeNode returned to the handler
    resolvedResolved,       \* what this.resolve returned to the handler
    result,                 \* what the handler returned to the host
    nested                  \* the handler invocations made inside the request in flight

configVars == <<nodeEnv, defaultConditionNames, instances, plugin>>
buildVars == <<rollupOptions, resolverFactory>>
requestVars == <<pc, req, fs, frame, engineCalls, warnings, hostCalls, local,
                 resolvedResolved, result>>
vars == <<nodeEnv, defaultConditionNames, instances, plugin, rollupOptions,
          resolverFactory, pc, req, fs, frame, engineCalls, warnings, hostCalls,
          local, resolvedResolved, result, nested>>

\* ------------------------------------------------------------------------
\* oxcResolve(options): the plugin factory
\* ------------------------------------------------------------------------
\* { ...defaultOptions, ...options }[key]
Merged(options, key) ==
    IF options[key] # None THEN options[key][1] ELSE defaultOptions[key]

\* the array the closure variable conditionNames refers to
ConditionNamesOf(p, dflt) == IF p.ownConditionNames = None THEN dflt ELSE p.ownConditionNames[1]

\* the value pushed when neither development nor production is listed
EnvCondition(env) ==
    IF env # None /\ env[1] # "production" THEN "development" ELSE "production"

\* a construction that pushes nothing
WithoutEnvCondition(names, env) == names

WithEnvCondition(names, env) ==
    IF ~Includes(names, "development") /\ ~Includes(names, "production")
    THEN Append(names, EnvCondition(env))
    ELSE names

UseBrowserOverrides(options) ==
    Includes(IF options.mainFields # None THEN options.mainFields[1]
             ELSE defaultOptions.mainFields, "browser")

\* conditionNames is options.conditionNames when the user passed one, else
\* the defaultOptions array itself: the push lands in whichever it is.
oxcResolve(options) ==
    /\ plugin' = Some(
         [ options             |-> options,
           ownConditionNames   |->
               IF options.conditionNames = None THEN None
               ELSE Some(WithEnvCondition(options.conditionNames[1], nodeEnv)),
           mainFields          |-> Merged(options, "mainFields"),
           extensions          |-> Merged(options, "extensions"),
           useBuiltinModules   |-> options.builtinModules,
           useBrowserOverrides |-> UseBrowserOverrides(options),
           isPreferBuiltinsSet |-> options.preferBuiltins # None,
           preferBuiltins      |->
               IF options.preferBuiltins # None THEN options.preferBuiltins[1]
               ELSE BoolPolicy(TRUE),
           resolveOnly         |->
               IF options.resolveOnly # None THEN options.resolveOnly[1]
               ELSE OnlyPatterns(<<>>) ])
    /\ defaultConditionNames' =
         IF options.conditionNames = None
         THEN WithEnvCondition(defaultConditionNames, nodeEnv)
         ELSE defaultConditionNames
    /\ instances' = instances + 1
    /\ rollupOptions' = None
    /\ resolverFactory' = None
    /\ UNCHANGED <<nodeEnv, pc, req, fs, frame, engineCalls, warnings, hostCalls, local,
                   resolvedResolved, result, nested>>

\* ------------------------------------------------------------------------
\* buildStart(buildOptions)
\* ------------------------------------------------------------------------
\* new ResolverFactory({ ...options, symlinks }): the engine copies what it
\* is given when it is constructed
buildStart(buildOptions) ==
    /\ rollupOptions' = Some(buildOptions)
    /\ resolverFactory' =
         Some([ conditionNames |-> ConditionNamesOf(plugin[1], defaultConditionNames),
                mainFields     |-> plugin[1].mainFields,
                extensions     |-> plugin[1].extensions,
                builtinModules |-> plugin[1].useBuiltinModules,
                symlinks       |-> buildOptions.preserveSymlinks ])
    /\ UNCHANGED <<nodeEnv, defaultConditionNames, instances, plugin, pc, req, fs,
                   frame, engineCalls, warnings, hostCalls, local, resolvedResolved, result,
                   nested>>

\* ------------------------------------------------------------------------
\* resolveLikeNode: the pure parts
\* ------------------------------------------------------------------------
\* const [importPath, params] = importee.split('?');
\* const importSuffix = params ? `?${params}` : '';
QuerySplit(importee) ==
    LET pieces == Split(importee, {"?"})
        params == IF Len(pieces) >= 2 THEN Some(pieces[2]) ELSE None
    IN  [ importPath   |-> pieces[1],
          importSuffix |-> IF params # None /\ params[1] # <<>>
                           THEN <<"?">> \o params[1] ELSE <<>> ]

\* path.dirname of an absolute posix path
RECURSIVE LastSlash(_, _)
LastSlash(s, i) == IF i = 0 THEN 0 ELSE IF s[i] = "/" THEN i ELSE LastSlash(s, i - 1)

Dirname(s) ==
    LET k == LastSlash(s, Len(s))
    IN  IF k = 0 THEN <<".">> ELSE IF k = 1 THEN <<"/">> ELSE SubSeq(s, 1, k - 1)

\* path.resolve(baseDir, p) for an absolute baseDir: segments joined, with
\* "." and empty segments dropped and ".." taking one segment back
RECURSIVE Normalize(_, _, _)
Normalize(segs, i, acc) ==
    IF i > Len(segs) THEN acc
    ELSE IF segs[i] = <<>> \/ segs[i] = <<".">> THEN Normalize(segs, i + 1, acc)
    ELSE IF segs[i] = <<".", ".">>
         THEN Normalize(segs, i + 1, IF Len(acc) = 0 THEN acc ELSE SubSeq(acc, 1, Len(acc) - 1))
    ELSE Normalize(segs, i + 1, Append(acc, segs[i]))

RECURSIVE JoinSegments(_, _)
JoinSegments(segs, i) ==
    IF i > Len(segs) THEN <<>> ELSE <<"/">> \o segs[i] \o JoinSegments(segs, i + 1)

PathResolve(baseDir, p) ==
    LET from == IF Len(p) > 0 /\ p[1] = "/" THEN p ELSE baseDir \o <<"/">> \o p
        segs == Normalize(Split(from, {"/"}), 1, <<>>)
    IN  IF Len(segs) = 0 THEN <<"/">> ELSE JoinSegments(segs, 1)

\* const baseDir = importer ? dirname(importer) : process.cwd();
BaseDir(importer) ==
    IF importer # None /\ importer[1] # <<>> THEN Dirname(importer[1]) ELSE CWD

\* lines 75-86: the package name (or the absolute path of a relative import)
Classify(importee, baseDir) ==
    LET parts == Split(importee, {"/", "\\"})
        first == parts[1]
    IN  IF Len(first) > 0 /\ first[1] = "@" /\ Len(parts) > 1
        THEN [id |-> first \o <<"/">> \o parts[2], isRelativeImport |-> FALSE]
        ELSE IF Len(first) > 0 /\ first[1] = "."
        THEN [id |-> PathResolve(baseDir, importee), isRelativeImport |-> TRUE]
        ELSE [id |-> first, isRelativeImport |-> FALSE]

\* one pattern of allowPatterns: a literal is escaped and anchored at both
\* ends, so it tests equality; a RegExp is used as it is
PatternTest(pattern, id) ==
    IF pattern.regex THEN StartsWith(id, pattern.src) ELSE id = pattern.src

allowPatterns(patterns, id) ==
    Len(patterns) = 0 \/ \E i \in 1..Len(patterns) : PatternTest(patterns[i], id)

\* the closure constant resolveOnly applied to id
ResolveOnly(policy, id) ==
    IF policy.fn THEN id \in policy.ids ELSE allowPatterns(policy.patterns, id)

normalizeInput(input) == [i \in 1..Len(input.entries) |-> input.entries[i][2]]

\* /^\.{0,2}\//.test(text)
LooksLikePath(text) ==
    \E k \in 0..2 :
        /\ Len(text) >= k + 1
        /\ \A j \in 1..k : text[j] = "."
        /\ text[k + 1] = "/"

\* importee[0]: the first character, or undefined
FirstChar(s) == IF Len(s) > 0 THEN Some(<<s[1]>>) ELSE None

\* /\.(?:ts|[cm]ts|tsx)$/.test(importer)
IsTypeScriptFile(path) ==
    \/ EndsWith(path, <<".", "t", "s">>)
    \/ EndsWith(path, <<".", "c", "t", "s">>)
    \/ EndsWith(path, <<".", "m", "t", "s">>)
    \/ EndsWith(path, <<".", "t", "s", "x">>)

TS_PAIRS ==
    << << <<".", "j", "s">>,      <<".", "t", "s">> >>,
       << <<".", "j", "s">>,      <<".", "t", "s", "x">> >>,
       << <<".", "j", "s", "x">>, <<".", "t", "s", "x">> >>,
       << <<".", "m", "j", "s">>, <<".", "m", "t", "s">> >>,
       << <<".", "c", "j", "s">>, <<".", "c", "t", "s">> >> >>

RECURSIVE TsVariants(_, _, _)
TsVariants(importee, extensions, k) ==
    IF k > Len(TS_PAIRS) THEN <<>>
    ELSE (IF EndsWith(importee, TS_PAIRS[k][1]) /\ Includes(extensions, TS_PAIRS[k][2])
          THEN <<SubSeq(importee, 1, Len(importee) - Len(TS_PAIRS[k][1])) \o TS_PAIRS[k][2]>>
          ELSE <<>>) \o TsVariants(importee, extensions, k + 1)

\* lines 96-121
ImportSpecifierList(importee, importer, extensions) ==
    <<importee>>
    \o (IF importer = None /\ ~LooksLikePath(ToText(FirstChar(importee)))
        THEN << <<".", "/">> \o importee >> ELSE <<>>)
    \o (IF importer # None /\ importer[1] # <<>> /\ IsTypeScriptFile(importer[1])
        THEN TsVariants(importee, extensions, 1) ELSE <<>>)

\* line 127
ImporteeIsBuiltin(useBuiltinModules, importee) ==
    /\ useBuiltinModules = Some(TRUE)
    /\ StripNodePrefix(importee) \in nodeBuiltinModules

\* lines 128-129
PreferImporteeIsBuiltin(policy, importee) ==
    IF policy.fn THEN importee \in policy.ids ELSE policy.b

\* ------------------------------------------------------------------------
\* Values passed between the plugin, the engine and the host
\* ------------------------------------------------------------------------
\* what a resolveId hook returns: null, false, a string or a record
NullResult  == [kind |-> "null",   id |-> <<>>, external |-> FALSE, meta |-> None]
FalseResult == [kind |-> "false",  id |-> <<>>, external |-> FALSE, meta |-> None]
StringResult(s) == [kind |-> "string", id |-> s, external |-> FALSE, meta |-> None]
Record(id, external, meta) ==
    [kind |-> "record", id |-> id, external |-> external, meta |-> meta]
Truthy(r) == r.kind = "record" \/ (r.kind = "string" /\ r.id # <<>>)

\* a ResolveResult of the engine: { path?: string, error?: string }
Found(path) == [path |-> Some(path), error |-> None]
Failed(error) == [path |-> None, error |-> Some(error)]
NOT_FOUND == "Cannot find module"
BUILTIN   == "Builtin module"
IGNORED   == "Path is ignored"
EngineAnswers == {Found(P1), Failed(NOT_FOUND), Failed(BUILTIN), Failed(IGNORED)}

EngineWarning(error) == [pluginCode |-> "", message |-> error]
PreferBuiltinsWarning == [pluginCode |-> "PREFER_BUILTINS", message |-> "preferring built-in module"]

NoRequest == [importee |-> <<>>, importer |-> None, custom |-> None]
NoFrame ==
    [ importee |-> <<>>, importSuffix |-> <<>>, importer |-> None,
      importSpecifierList |-> <<>>, i |-> 0, resolved |-> None ]

\* ------------------------------------------------------------------------
\* resolveLikeNode: up to its first await
\* ------------------------------------------------------------------------
\* Gate without the bypass for relative imports
GateFiltersRelative(policy, input, importee, importer) ==
    IF ~ResolveOnly(policy, Classify(importee, BaseDir(importer)).id)
    THEN (IF Includes(normalizeInput(input), importee) THEN "null" ELSE "false")
    ELSE "proceed"

\* lines 88-94: "proceed", or the value returned
Gate(policy, input, importee, importer) ==
    LET c == Classify(importee, BaseDir(importer))
    IN  IF ~c.isRelativeImport /\ ~ResolveOnly(policy, c.id)
        THEN (IF Includes(normalizeInput(input), importee) THEN "null" ELSE "false")
        ELSE "proceed"

\* line 125
PushBrowser(names, useBrowserOverrides) ==
    IF useBrowserOverrides /\ ~Includes(names, "browser")
    THEN Append(names, "browser") ELSE names

\* lines 131-133: the value returned before the engine is asked, if any
BuiltinPreCheck(isBuiltin, prefer) ==
    IF isBuiltin /\ prefer THEN Some(NullResult) ELSE None

\* lines 137-147: whether the loop asks the engine about the next candidate
\* after the answer `resolved` for candidate i of n
LoopGoesOn(resolved, i, n) == i < n

\* lines 149-171: the diagnostics emitted and the value returned once the
\* loop is over
Compose(resolved, isBuiltin, prefer, isPreferBuiltinsSet, importee, importSuffix) ==
    LET engineWarning ==
            IF resolved # None /\ resolved[1].error # None
            THEN <<EngineWarning(resolved[1].error[1])>> ELSE <<>>
    IN  IF resolved = None
        THEN [warnings |-> engineWarning, value |-> NullResult]
        ELSE IF isBuiltin /\ prefer
        THEN [ warnings |-> engineWarning \o
                   (IF ~isPreferBuiltinsSet /\ resolved[1].path # Some(importee)
                    THEN <<PreferBuiltinsWarning>> ELSE <<>>),
               value |-> FalseResult ]
        ELSE [ warnings |-> engineWarning,
               value |-> Record(ToText(resolved[1].path) \o importSuffix, FALSE, None) ]

\* ------------------------------------------------------------------------
\* resolveId.handler
\* ------------------------------------------------------------------------
\* HandlerGuards without the test of custom['node-resolve'].resolved
HandlerGuardsNoRecord(importee, custom) ==
    IF importee = ES6_BROWSER_EMPTY THEN Some(StringResult(importee))
    ELSE IF importee = <<>> THEN Some(NullResult)
    ELSE IF Includes(importee, "\\0") THEN Some(NullResult)
    ELSE None

\* lines 198-209: the value returned before resolveLikeNode is called, if any
HandlerGuards(importee, custom) ==
    IF importee = ES6_BROWSER_EMPTY THEN Some(StringResult(importee))
    ELSE IF importee = <<>> THEN Some(NullResult)
    ELSE IF Includes(importee, "\\0") THEN Some(NullResult)
    ELSE IF custom # None /\ Truthy(custom[1]) THEN Some(custom[1])
    ELSE None

\* lines 211-213
EffectiveImporter(importer) ==
    IF importer # None /\ Includes(importer[1], "\\0") THEN None ELSE importer

\* Merge with the id compared before the external flag is looked at
MergeIdFirst(localValue, answer) ==
    IF answer # None
    THEN IF answer[1].id # localValue.id THEN answer[1]
         ELSE IF answer[1].external THEN FalseResult
         ELSE [localValue EXCEPT !.meta = answer[1].meta]
    ELSE localValue

\* lines 227-241: the handler's value from the local one and the host's
Merge(localValue, answer) ==
    IF answer # None
    THEN IF answer[1].external THEN FalseResult
         ELSE IF answer[1].id # localValue.id THEN answer[1]
         ELSE [localValue EXCEPT !.meta = answer[1].meta]
    ELSE localValue

\* the handler returns `value` without having awaited anything further
Return(value) ==
    /\ result' = Some(value)
    /\ pc' = "done"

\* the handler has the local value: it returns it when falsy, and hands it
\* to this.resolve otherwise (lines 215-226)
AfterLocal(value, importee, importer) ==
    /\ local' = Some(value)
    /\ IF Truthy(value)
       THEN /\ hostCalls' = Append(hostCalls,
                   [id |-> value.id, importer |-> importer, skipSelf |-> FALSE,
                    resolved |-> value, importee |-> importee])
            /\ pc' = "host"
            /\ UNCHANGED result
       ELSE /\ Return(value)
            /\ UNCHANGED hostCalls

EngineCall(importer, specifier) ==
    [directory |-> IF importer # None THEN importer[1] ELSE CWD, specifier |-> specifier]

\* the array conditionNames after line 125
PushBrowserIntoConditionNames ==
    IF plugin[1].ownConditionNames = None
    THEN /\ defaultConditionNames' =
              PushBrowser(defaultConditionNames, plugin[1].useBrowserOverrides)
         /\ UNCHANGED plugin
    ELSE /\ plugin' = Some([plugin[1] EXCEPT !.ownConditionNames =
              Some(PushBrowser(plugin[1].ownConditionNames[1], plugin[1].useBrowserOverrides))])
         /\ UNCHANGED defaultConditionNames

\* the host calls the hook; it runs until it returns or awaits the engine
handler(importee, importer0, custom, answers) ==
    /\ pc = "idle"
    /\ rollupOptions # None
    /\ req' = [importee |-> importee, importer |-> importer0, custom |-> custom]
    /\ fs' = answers
    /\ UNCHANGED <<nodeEnv, instances, rollupOptions, resolverFactory, resolvedResolved,
                   nested>>
    /\ IF HandlerGuards(importee, custom) # None
       THEN /\ Return(HandlerGuards(importee, custom)[1])
            /\ UNCHANGED <<defaultConditionNames, plugin, frame, engineCalls,
                           warnings, hostCalls, local>>
       ELSE LET importer == EffectiveImporter(importer0)
                q        == QuerySplit(importee)
                gate     == Gate(plugin[1].resolveOnly, rollupOptions[1].input,
                                 q.importPath, importer)
                list     == ImportSpecifierList(q.importPath, importer, plugin[1].extensions)
                pre      == BuiltinPreCheck(
                                ImporteeIsBuiltin(plugin[1].useBuiltinModules, q.importPath),
                                PreferImporteeIsBuiltin(plugin[1].preferBuiltins, q.importPath))
            IN  IF gate # "proceed"
                THEN /\ AfterLocal(IF gate = "null" THEN NullResult ELSE FalseResult, importee, importer)
                     /\ UNCHANGED <<defaultConditionNames, plugin, frame, engineCalls, warnings>>
                ELSE /\ PushBrowserIntoConditionNames
                     /\ IF pre # None
                        THEN /\ AfterLocal(pre[1], importee, importer)
                             /\ UNCHANGED <<frame, engineCalls, warnings>>
                        ELSE /\ frame' = [ importee |-> q.importPath,
                                           importSuffix |-> q.importSuffix,
                                           importer |-> importer,
                                           importSpecifierList |-> list,
                                           i |-> 1, resolved |-> None ]
                             /\ engineCalls' = Append(engineCalls, EngineCall(importer, list[1]))
                             /\ pc' = "engine"
                             /\ UNCHANGED <<warnings, hostCalls, local, result>>

\* resolverFactory.async settles: the loop goes on, or resolveLikeNode
\* returns and the handler goes on with its value
engineReturns ==
    /\ pc = "engine"
    /\ LET resolved == fs[frame.importSpecifierList[frame.i]]
           n == Len(frame.importSpecifierList)
       IN  IF LoopGoesOn(resolved, frame.i, n)
           THEN /\ frame' = [frame EXCEPT !.i = frame.i + 1, !.resolved = Some(resolved)]
                /\ engineCalls' = Append(engineCalls,
                       EngineCall(frame.importer, frame.importSpecifierList[frame.i + 1]))
                /\ UNCHANGED <<pc, warnings, hostCalls, local, result>>
           ELSE LET out == Compose(Some(resolved),
                               ImporteeIsBuiltin(plugin[1].useBuiltinModules, frame.importee),
                               PreferImporteeIsBuiltin(plugin[1].preferBuiltins, frame.importee),
                               plugin[1].isPreferBuiltinsSet, frame.importee, frame.importSuffix)
                IN  /\ frame' = [frame EXCEPT !.resolved = Some(resolved)]
                    /\ warnings' = warnings \o out.warnings
                    /\ AfterLocal(out.value, req.importee, frame.importer)
                    /\ UNCHANGED engineCalls
    /\ UNCHANGED <<nodeEnv, defaultConditionNames, instances, plugin, rollupOptions,
                   resolverFactory, req, fs, resolvedResolved, nested>>

\* what the rest of the host's resolution chain may answer for `id`
HostAnswers(id) ==
    {None} \cup {Some(Record(i, e, m)) : i \in {id, P2}, e \in BOOLEAN, m \in {None, Some("meta")}}

\* this.resolve settles with `answer`
hostReturns(answer) ==
    /\ pc = "host"
    /\ resolvedResolved' = answer
    /\ Return(Merge(local[1], answer))
    /\ UNCHANGED <<nodeEnv, defaultConditionNames, instances, plugin, rollupOptions,
                   resolverFactory, req, fs, frame, engineCalls, warnings, hostCalls, local,
                   nested>>

\* this.resolve was called with skipSelf false, so the host's chain reaches
\* this handler again, with the id of the local record as importee and the
\* record in custom['node-resolve'].resolved. Its guards (lines 198-209)
\* return at once, and a returned record settles this.resolve; were no guard
\* to fire, resolveLikeNode would run anew inside the request in flight.
hostReenters ==
    /\ pc = "host"
    /\ Len(nested) < Len(hostCalls)
    /\ LET call  == hostCalls[Len(hostCalls)]
           guard == HandlerGuards(call.id, Some(call.resolved))
       IN  /\ nested' = Append(nested, [importee |-> call.id, returned |-> guard])
           /\ IF guard = None
              THEN /\ pc' = "nested"
                   /\ UNCHANGED <<resolvedResolved, result>>
              ELSE IF guard[1].kind = "record"
              THEN /\ resolvedResolved' = guard
                   /\ Return(Merge(local[1], guard))
              ELSE UNCHANGED <<pc, resolvedResolved, result>>
    /\ UNCHANGED <<nodeEnv, defaultConditionNames, instances, plugin, rollupOptions,
                   resolverFactory, req, fs, frame, engineCalls, warnings, hostCalls, local>>

\* the host has the hook's value; the next request may come
finish ==
    /\ pc = "done"
    /\ pc' = "idle"
    /\ req' = NoRequest
    /\ fs' = <<>>
    /\ frame' = NoFrame
    /\ engineCalls' = <<>>
    /\ warnings' = <<>>
    /\ hostCalls' = <<>>
    /\ local' = None
    /\ resolvedResolved' = None
    /\ result' = None
    /\ nested' = <<>>
    /\ UNCHANGED <<nodeEnv, defaultConditionNames, instances, plugin, rollupOptions,
                   resolverFactory>>

\* ------------------------------------------------------------------------
\* Specifications
\* ------------------------------------------------------------------------
Importees == {FOO, DOT_FOO, FS, NODE_FS, SCOPED, FOO_Q, FOO_QQ, FS_Q, ES6_BROWSER_EMPTY, <<>>}
Importers == {None, Some(IMPORTER), Some(<<"\\0", "v">>)}
Customs == {None, Some(Record(P2, FALSE, None))}

\* the engine's answers for the candidates of a request
AnswersWith(importee, importer, extensions) ==
    [Range(ImportSpecifierList(QuerySplit(importee).importPath,
                               EffectiveImporter(importer),
                               extensions)) -> EngineAnswers]
AnswersFor(importee, importer) == AnswersWith(importee, importer, defaultOptions.extensions)

InitRequest ==
    /\ pc = "idle"
    /\ req = NoRequest
    /\ fs = <<>>
    /\ frame = NoFrame
    /\ engineCalls = <<>>
    /\ warnings = <<>>
    /\ hostCalls = <<>>
    /\ local = None
    /\ resolvedResolved = None
    /\ result = None
    /\ nested = <<>>

Init ==
    /\ nodeEnv = None
    /\ defaultConditionNames = defaultOptions.conditionNames
    /\ instances = 0
    /\ plugin = None
    /\ rollupOptions = None
    /\ resolverFactory = None
    /\ InitRequest

Construct == plugin = None /\ \E options \in RequestOptions : oxcResolve(options)

Start == plugin # None /\ rollupOptions = None
         /\ \E buildOptions \in RequestBuildOptions : buildStart(buildOptions)

Request ==
    \E importee \in Importees, importer \in Importers, custom \in Customs :
        \E answers \in AnswersFor(importee, importer) :
            handler(importee, importer, custom, answers)

HostReturn == pc = "host" /\ \E rr \in HostAnswers(local[1].id) : hostReturns(rr)

Next == Construct \/ Start \/ Request \/ engineReturns \/ HostReturn \/ hostReenters
        \/ finish

Spec == Init /\ [][Next]_vars

\* Configuration alone: any NODE_ENV, any options object, plugin instances
\* created one after another in the same process, each started once.
\* builds with TypeScript sources: the importer is a .ts or a .js file, the
\* specifier ends in .js or .mjs or has no ending
TsImportees == {A_JS, A_MJS, DOT_FOO}
TsImporters == {Some(TS_IMPORTER), Some(IMPORTER)}

ConstructTs == plugin = None /\ \E options \in TsOptions : oxcResolve(options)

RequestTs ==
    /\ plugin # None
    /\ \E importee \in TsImportees, importer \in TsImporters :
         \E answers \in AnswersWith(importee, importer, plugin[1].extensions) :
             handler(importee, importer, None, answers)

NextTs == ConstructTs \/ Start \/ RequestTs \/ engineReturns \/ HostReturn
          \/ hostReenters \/ finish

SpecTs == Init /\ [][NextTs]_vars

\* a promise the handler awaits settles: the engine answers, and the host
\* settles this.resolve
Fairness ==
    /\ WF_vars(engineReturns)
    /\ WF_vars(HostReturn \/ hostReenters)

SpecFair == Spec /\ Fairness

MaxInstances == 2

InitConfig ==
    /\ nodeEnv \in NodeEnvChoices
    /\ defaultConditionNames = defaultOptions.conditionNames
    /\ instances = 0
    /\ plugin = None
    /\ rollupOptions = None
    /\ resolverFactory = None
    /\ InitRequest

ConstructAny == instances < MaxInstances /\ rollupOptions = None
                /\ \E options \in AllOptions : oxcResolve(options)

StartAny == plugin # None /\ rollupOptions = None
            /\ \E buildOptions \in AllBuildOptions : buildStart(buildOptions)

NextConfig == ConstructAny \/ StartAny

SpecConfig == InitConfig /\ [][NextConfig]_vars

\* ------------------------------------------------------------------------
\* Vocabulary of the properties
\* ------------------------------------------------------------------------
RECURSIVE FirstIndex(_, _, _)
FirstIndex(s, ch, i) ==
    IF i > Len(s) THEN 0 ELSE IF s[i] = ch THEN i ELSE FirstIndex(s, ch, i + 1)

\* the specifier without its query suffix, and the suffix from the first `?`
BarePath(raw) ==
    IF FirstIndex(raw, "?", 1) = 0 THEN raw ELSE SubSeq(raw, 1, FirstIndex(raw, "?", 1) - 1)
QuerySuffix(raw) ==
    IF FirstIndex(raw, "?", 1) = 0 THEN <<>> ELSE SubSeq(raw, FirstIndex(raw, "?", 1), Len(raw))

\* resolveLikeNode has been called for the request in flight
Ran == pc # "idle" /\ HandlerGuards(req.importee, req.custom) = None

\* the loop over the candidates is over
EngineDone == pc \in {"host", "done"} /\ frame.i > 0

Candidates == frame.importSpecifierList
Yields(k) == fs[Candidates[k]].path # None
FirstYielding ==
    CHOOSE k \in 1..Len(Candidates) : Yields(k) /\ \A j \in 1..(k - 1) : ~Yields(j)

IsRelative == Len(BarePath(req.importee)) > 0 /\ BarePath(req.importee)[1] = "."
PackageName == Classify(BarePath(req.importee), BaseDir(EffectiveImporter(req.importer))).id
IsEligible == ResolveOnly(plugin[1].resolveOnly, PackageName)
IsEntryPoint == Includes(normalizeInput(rollupOptions[1].input), BarePath(req.importee))
PassesGate == IsRelative \/ IsEligible
IsBuiltin == ImporteeIsBuiltin(plugin[1].useBuiltinModules, BarePath(req.importee))
Prefers == PreferImporteeIsBuiltin(plugin[1].preferBuiltins, BarePath(req.importee))

\* `false`, or a record flagged external
IsExternal(r) == r.kind = "false" \/ (r.kind = "record" /\ r.external)

Probed == [k \in 1..Len(engineCalls) |-> engineCalls[k].specifier]

\* ------------------------------------------------------------------------
\* Properties
\* ------------------------------------------------------------------------
\* C1: the candidates are probed in list order, and the outcome is that of
\* the first candidate for which the engine returns a path; the answers for
\* later candidates do not count.
C1_FirstPathDecides ==
    /\ (pc # "idle" /\ frame.i > 0) =>
           Probed = SubSeq(Candidates, 1, Len(engineCalls))
    /\ (EngineDone /\ \E k \in 1..Len(Candidates) : Yields(k)) =>
           local = Some(Record(fs[Candidates[FirstYielding]].path[1] \o frame.importSuffix,
                               FALSE, None))

\* C2: when no candidate yields a path and the last failure is not a
\* builtin-module diagnostic the outcome is null, and the id of every
\* record returned is a path the engine returned plus the query suffix.
C2_NoPathIsNull ==
    /\ (EngineDone /\ (\A k \in 1..Len(Candidates) : ~Yields(k))
           /\ fs[Candidates[Len(Candidates)]].error # Some(BUILTIN)) =>
           /\ local = Some(NullResult)
           /\ pc = "done" => result = Some(NullResult)
    /\ (EngineDone /\ local[1].kind = "record") =>
           \E k \in 1..Len(Candidates) :
               /\ Yields(k)
               /\ local[1].id = fs[Candidates[k]].path[1] \o frame.importSuffix

\* C3: the whole suffix from the first `?` on is reattached unchanged to the
\* resolved id, and no candidate handed to the engine carries any of it.
C3_QuerySuffixKept ==
    /\ (Ran /\ Includes(req.importee, "?")) =>
           \A k \in 1..Len(engineCalls) : ~Includes(engineCalls[k].specifier, "?")
    /\ (EngineDone /\ Includes(req.importee, "?") /\ frame.resolved[1].path # None) =>
           local = Some(Record(frame.resolved[1].path[1] \o QuerySuffix(req.importee),
                               FALSE, None))

\* C4: a request that passes the gate for a recognized builtin that the
\* policy prefers ends External, and the engine is not asked.
C4_PreferredBuiltinIsExternal ==
    (pc = "done" /\ Ran /\ PassesGate /\ IsBuiltin /\ Prefers) =>
        /\ IsExternal(result[1])
        /\ engineCalls = <<>>

\* C5: the PREFER_BUILTINS advisory is emitted exactly when the specifier is
\* a builtin, the policy prefers it, preferBuiltins was not configured and
\* the engine resolves the specifier to a path other than the specifier;
\* the outcome is then External.
C5_AdvisoryExactlyWhenShadowed ==
    (pc = "done" /\ Ran /\ PassesGate) =>
        /\ (PreferBuiltinsWarning \in Range(warnings)) <=>
               /\ IsBuiltin
               /\ Prefers
               /\ ~plugin[1].isPreferBuiltinsSet
               /\ fs[BarePath(req.importee)].path # None
               /\ fs[BarePath(req.importee)].path[1] # BarePath(req.importee)
        /\ (PreferBuiltinsWarning \in Range(warnings)) => IsExternal(result[1])

NoOptions ==
    [ mainFields |-> None, browser |-> None, conditionNames |-> None,
      builtinModules |-> None, preferBuiltins |-> None, resolveOnly |-> None,
      extensions |-> None, extensionAlias |-> None ]

\* C6: without user options browser semantics are inactive, and they are
\* active only when mainFields lists browser or the browser flag is set.
C6_DefaultBrowserInactive ==
    plugin # None =>
        /\ plugin[1].options = NoOptions =>
               /\ ~plugin[1].useBrowserOverrides
               /\ ~Includes(ConditionNamesOf(plugin[1], defaultConditionNames), "browser")
        /\ plugin[1].useBrowserOverrides =>
               \/ (plugin[1].options.mainFields # None
                     /\ Includes(plugin[1].options.mainFields[1], "browser"))
               \/ plugin[1].options.browser = Some(TRUE)

\* the same options with browser added to mainFields instead of the flag
BrowserAsMainField(options) ==
    [options EXCEPT
        !.browser = None,
        !.mainFields = Some(IF Includes(Merged(options, "mainFields"), "browser")
                            THEN Merged(options, "mainFields")
                            ELSE <<"browser">> \o Merged(options, "mainFields"))]

\* C7: options with `browser: true` derive the same browser activation and
\* the same engine condition names as the options with browser in mainFields.
C7_BrowserFlagIsMainField ==
    (plugin # None /\ plugin[1].options.browser = Some(TRUE)) =>
        /\ plugin[1].useBrowserOverrides
             = UseBrowserOverrides(BrowserAsMainField(plugin[1].options))
        /\ resolverFactory # None =>
             resolverFactory[1].conditionNames
               = ConditionNamesOf(plugin[1], defaultConditionNames)

\* C8: with browser semantics active, a target the engine reports as
\* disabled by a `false` mapping resolves to the empty-module sentinel, with
\* no warning.
C8_DisabledIsEmptyModule ==
    (EngineDone /\ plugin[1].useBrowserOverrides
        /\ fs[Candidates[1]] = Failed(IGNORED)
        /\ \A k \in 1..Len(Candidates) : ~Yields(k)) =>
        /\ local = Some(Record(ES6_BROWSER_EMPTY, FALSE, None))
        /\ warnings = <<>>

\* C9: a relative specifier and an eligible bare specifier proceed; a bare
\* specifier that is not eligible is deferred (null) when it is a build entry
\* point and rejected (false) otherwise, without engine call or diagnostic.
C9_Gate ==
    Ran =>
        /\ PassesGate =>
               \/ engineCalls # <<>> /\ engineCalls[1].specifier = BarePath(req.importee)
               \/ IsBuiltin /\ Prefers /\ local = Some(NullResult)
        /\ ~PassesGate =>
               /\ local = Some(IF IsEntryPoint THEN NullResult ELSE FalseResult)
               /\ result = local
               /\ engineCalls = <<>>
               /\ warnings = <<>>
               /\ hostCalls = <<>>

C9_Witness ==
    /\ pc = "done" /\ Ran
    /\ ~IsRelative /\ ~IsEligible /\ IsEntryPoint
    /\ result = Some(NullResult)

\* C10: after the re-submission the handler returns false when the host's
\* answer is external, else the host's record when its id differs, else the
\* local record with the host's meta; and the local record when the host
\* answers nothing.
C10_Merge ==
    (pc = "done" /\ hostCalls # <<>>) =>
        /\ hostCalls = <<[id |-> local[1].id, importer |-> EffectiveImporter(req.importer),
                          skipSelf |-> FALSE, resolved |-> local[1],
                          importee |-> req.importee]>>
        /\ resolvedResolved = None => result = local
        /\ resolvedResolved # None =>
             IF resolvedResolved[1].external THEN result = Some(FalseResult)
             ELSE IF resolvedResolved[1].id # local[1].id THEN result = resolvedResolved
             ELSE /\ result[1].kind = "record"
                  /\ result[1].id = local[1].id
                  /\ result[1].external = local[1].external
                  /\ result[1].meta = resolvedResolved[1].meta

C10_Witness ==
    /\ pc = "done" /\ hostCalls # <<>>
    /\ resolvedResolved # None
    /\ ~resolvedResolved[1].external
    /\ resolvedResolved[1].id = local[1].id
    /\ resolvedResolved[1].meta = Some("meta")
    /\ result = Some(Record(local[1].id, FALSE, Some("meta")))


LastAnswer == fs[Candidates[Len(Candidates)]]

\* C11: a builtin-module diagnostic on the last candidate makes the outcome
\* External with no warning; any other diagnostic on the last candidate is
\* the one warning emitted and the resolution fails; diagnostics of earlier
\* candidates are never emitted.
C11_LastDiagnostic ==
    (EngineDone /\ LastAnswer.error # None) =>
        IF LastAnswer.error = Some(BUILTIN)
        THEN /\ IsExternal(local[1])
             /\ warnings = <<>>
        ELSE /\ warnings = <<EngineWarning(LastAnswer.error[1])>>
             /\ local[1].kind # "record"


HasRecord == req.custom # None /\ Truthy(req.custom[1])
Untouched ==
    /\ engineCalls = <<>>
    /\ hostCalls = <<>>
    /\ warnings = <<>>
    /\ local = None

\* the specifier is not one the handler answers by itself (the sentinel, the
\* empty string, an id with a NUL character)
PlainSpecifier ==
    /\ req.importee # ES6_BROWSER_EMPTY
    /\ req.importee # <<>>
    /\ ~Includes(req.importee, "\\0")

\* C12 as stated: every request that carries a recorded resolution returns
\* it unchanged, with no engine call, re-submission or diagnostic; a request
\* without one goes through resolveLikeNode.
C12_ShortCircuitAlways ==
    /\ (pc # "idle" /\ HasRecord) =>
           /\ pc = "done"
           /\ result = req.custom
           /\ Untouched
    /\ (pc # "idle" /\ ~HasRecord /\ PlainSpecifier) =>
           (pc = "engine" \/ local # None)

\* C12 amended: the same for the requests whose specifier is not the
\* sentinel, not empty and free of NUL characters; for the others the
\* earlier guards answer (the sentinel itself, or null), record or not.
C12_ShortCircuit ==
    /\ (pc # "idle" /\ HasRecord /\ PlainSpecifier) =>
           /\ pc = "done"
           /\ result = req.custom
           /\ Untouched
    /\ (pc # "idle" /\ HasRecord /\ ~PlainSpecifier) =>
           /\ pc = "done"
           /\ result = Some(IF req.importee = ES6_BROWSER_EMPTY
                            THEN StringResult(req.importee) ELSE NullResult)
           /\ Untouched
    /\ (pc # "idle" /\ ~HasRecord /\ PlainSpecifier) =>
           (pc = "engine" \/ local # None)

C12_Witness ==
    /\ pc = "done"
    /\ req.importee = FOO_Q
    /\ req.custom = Some(Record(P2, FALSE, None))
    /\ result = Some(Record(P2, FALSE, None))
    /\ Untouched


HasDevelopment(names) == Includes(names, "development")
HasProduction(names) == Includes(names, "production")
ExactlyOneEnv(names) == HasDevelopment(names) # HasProduction(names)

\* the condition-name list of the constructed configuration
ConfiguredNames == ConditionNamesOf(plugin[1], defaultConditionNames)

C14_ConfigurationReadOnly ==
    [][resolverFactory # None =>
          /\ plugin' = plugin
          /\ defaultConditionNames' = defaultConditionNames
          /\ resolverFactory' = resolverFactory]_vars


\* the specifier as written, and its `./`-prefixed form
Literal0 == BarePath(req.importee)
DotSlashed == <<".", "/">> \o Literal0

\* C15: the candidate list is not empty and starts with the literal
\* specifier; the `./` form is a candidate exactly when there is no importer
\* and the specifier does not look like `./x`, `../x` or `/x`, so an entry
\* point written as a path has the literal specifier as its only candidate.
C15_RootFallback ==
    frame.i > 0 =>
        /\ Len(Candidates) >= 1
        /\ Candidates[1] = Literal0
        /\ (DotSlashed \in Range(Candidates)) <=>
               (frame.importer = None /\ ~LooksLikePath(Literal0))
        /\ (frame.importer = None /\ LooksLikePath(Literal0)) =>
               Candidates = <<Literal0>>


IsTsExtension(ext) == ext \in {DOT_TS, DOT_TSX, DOT_MTS, DOT_CTS}

\* the ending of the specifier among .js, .jsx, .mjs, .cjs, if it has one
JsEndings == {e \in {DOT_JS, DOT_JSX, DOT_MJS, DOT_CJS} : EndsWith(Literal0, e)}

\* the configuration's extension-alias table: the user's, or none
AliasTable ==
    IF plugin[1].options.extensionAlias = None THEN <<>>
    ELSE plugin[1].options.extensionAlias[1]

\* the TypeScript counterparts the table lists for `ending`, in its order
Counterparts(ending) ==
    LET rows == SelectSeq(AliasTable, LAMBDA row : row.from = ending)
    IN  IF rows = <<>> THEN <<>> ELSE SelectSeq(rows[1].to, IsTsExtension)

AliasVariants ==
    IF JsEndings = {} THEN <<>>
    ELSE LET ending == CHOOSE e \in JsEndings : TRUE
             stem   == SubSeq(Literal0, 1, Len(Literal0) - Len(ending))
             cps    == Counterparts(ending)
         IN  [k \in 1..Len(cps) |-> stem \o cps[k]]

\* C16: for a request with an importer the candidates are the specifier
\* followed, when the importer is a TypeScript file, by one variant per
\* TypeScript counterpart the extension-alias table lists for the
\* specifier's ending, in the table's order, and by nothing otherwise.
C16_TsVariantsFollowAliasTable ==
    (frame.i > 0 /\ frame.importer # None) =>
        Candidates = <<Literal0>> \o
            (IF IsTypeScriptFile(frame.importer[1]) THEN AliasVariants ELSE <<>>)


InFlight == pc \in {"engine", "host"}

C17_Bounds ==
    /\ Len(hostCalls) <= 1
    /\ hostCalls # <<>> =>
           /\ local # None
           /\ local[1].kind = "record"
           /\ hostCalls[1].resolved = local[1]
           /\ ~hostCalls[1].skipSelf
    /\ pc # "nested"
    /\ \A k \in 1..Len(nested) :
           /\ nested[k].returned = Some(hostCalls[k].resolved)
           /\ pc = "done"
    /\ Len(engineCalls) <= Len(Candidates)
    /\ \A k \in 1..Len(engineCalls) : engineCalls[k].specifier = Candidates[k]

\* C17: a request re-submits to the host at most once, and only a result
\* record; the handler invocation that the re-submission causes returns
\* that record through the already-resolved guard, with no further engine
\* or host call; the engine is asked once per candidate at most; and every
\* request in flight comes to its return.
C17_BoundedReentrancy ==
    /\ []C17_Bounds
    /\ InFlight ~> (pc = "done")

C17_Witness ==
    /\ pc = "done"
    /\ Len(hostCalls) = 1
    /\ Len(nested) = 1
    /\ nested[1].returned = Some(local[1])
    /\ Len(engineCalls) = 2
    /\ result = local


\* C18: constructions leave defaultOptions as it was written (its
\* condition-name list is the original four entries), and an instance whose
\* options do not activate browser semantics has no browser condition name.
C18_DefaultOptionsUnchanged ==
    /\ defaultConditionNames = defaultOptions.conditionNames
    /\ (plugin # None /\ ~plugin[1].useBrowserOverrides) =>
           ~Includes(ConfiguredNames, "browser")

====
